---- MODULE Spec2Model ----
(***************************************************************************)
(* NanoZip (lz/nz1/nz1.c): the LZ77 encoder with its hash-chain match      *)
(* finder, the token stream, the decoder and the CRC32 check.              *)
(*                                                                         *)
(* Positions and indices are the C ones (0-based); a buffer is a sequence  *)
(* and At(buf, i) is buf[i] of the C code.  A 32-bit word is kept as two   *)
(* 16-bit halves <<hi, lo>> or as its four little-endian bytes, so that    *)
(* every intermediate value stays below 2^31.                              *)
(***************************************************************************)
EXTENDS Integers, Sequences, FiniteSets, TLC

\* ------------------------------------------------------------ bounds
\* Longest enumerated input of nanozip_compress.
MaxLen == 5
\* Most tokens in a hand-built decoder payload.
MaxTok == 3
\* Bytes by which the long inputs of nanozip_compress exceed the window.
LongTail == 100

\* ------------------------------------------------- program constants
MAX_WINDOW     == 65535
MIN_WINDOW     == 1024
DEFAULT_WINDOW == 65535
MAX_MATCH      == 258
MIN_MATCH      == 3
HASH_BITS      == 14
MATCH_SEARCH_LIMIT == 32
SIMD_WIDTH     == 32
HEADER_SIZE    == 14
MATCH_MARKER   == 192
ESCAPE_MARKER  == 191
\* CRC32_POLY 0xEDB88320 as two 16-bit halves.
CRC32_POLY_HI  == 60856
CRC32_POLY_LO  == 33568
\* The hash multiplier 0x9E3779B1 as two 16-bit halves.
HASH_MULT_HI   == 40503
HASH_MULT_LO   == 31153
\* NZ_MAGIC 0x5A4E5A50 as memcpy lays it out (little-endian).
NZ_MAGIC == <<80, 90, 78, 90>>

\* ------------------------------------------------------------ helpers
At(buf, i) == buf[i + 1]

Min(a, b) == IF a < b THEN a ELSE b

RECURSIVE Pow2(_)
Pow2(n) == IF n = 0 THEN 1 ELSE 2 * Pow2(n - 1)

\* a ^ b, bit by bit, on n-bit operands.
RECURSIVE XorBits(_, _, _)
XorBits(a, b, n) ==
    IF n = 0 THEN 0
    ELSE (((a % 2) + (b % 2)) % 2) + 2 * XorBits(a \div 2, b \div 2, n - 1)

\* a ^ b for every pair of 4-bit operands, evaluated once.
XorNibble == [a \in 0 .. 15 |-> [b \in 0 .. 15 |-> XorBits(a, b, 4)]]

\* a ^ b on n-bit operands (n a multiple of 4), four bits at a time.
RECURSIVE BitXor(_, _, _)
BitXor(a, b, n) ==
    IF n = 0 THEN 0
    ELSE XorNibble[a % 16][b % 16] + 16 * BitXor(a \div 16, b \div 16, n - 4)

\* memcpy of a uint32_t / uint16_t into the buffer, little-endian.
U32Bytes(hi, lo) == <<lo % 256, lo \div 256, hi % 256, hi \div 256>>
U16Bytes(v) == <<v % 256, v \div 256>>

\* (uint32_t)in_size for the sizes of this model (all below 2^16).
SizeBytes(n) == U32Bytes(0, n % 65536)

\* ------------------------------------------------------------- CRC32
\* One turn of the inner loop: crc = (crc >> 1) ^ (CRC32_POLY & -(crc & 1)).
CrcShift(c) ==
    LET hi == c[1] \div 2
        lo == (c[2] \div 2) + (c[1] % 2) * 32768
    IN  IF c[2] % 2 = 1
        THEN <<BitXor(hi, CRC32_POLY_HI, 16), BitXor(lo, CRC32_POLY_LO, 16)>>
        ELSE <<hi, lo>>

\* e, with v evaluated first (keeps the evaluation of a long loop flat).
Strict(v, e) == IF v = v THEN e ELSE e

RECURSIVE CrcBits(_, _)
CrcBits(c, j) ==
    IF j = 0 THEN c
    ELSE LET c1 == CrcShift(c) IN Strict(c1, CrcBits(c1, j - 1))

\* crc ^= data[i], then the eight shifts.
CrcByte(c, b) == CrcBits(<<c[1], BitXor(c[2], b, 16)>>, 8)

RECURSIVE CrcLoop(_, _, _)
CrcLoop(c, data, i) ==
    IF i >= Len(data) THEN c
    ELSE LET c1 == CrcByte(c, At(data, i)) IN Strict(c1, CrcLoop(c1, data, i + 1))

\* The loop over data[lo .. hi), bytes in the code's order; a long stretch is
\* taken as two halves, one after the other, so that it evaluates in small depth.
RECURSIVE CrcSpan(_, _, _, _)
CrcSpan(c, data, lo, hi) ==
    IF hi - lo <= 16 THEN CrcLoop(c, SubSeq(data, lo + 1, hi), 0)
    ELSE LET mid == lo + (hi - lo) \div 2
             c1 == CrcSpan(c, data, lo, mid)
         IN  Strict(c1, CrcSpan(c1, data, mid, hi))

\* nz_crc32: the four bytes memcpy writes for the returned ~crc.
nz_crc32(data) ==
    LET c == CrcSpan(<<65535, 65535>>, data, 0, Len(data))
    IN  U32Bytes(65535 - c[1], 65535 - c[2])

\* ------------------------------------------------------ match finder
\* hash = (data[pos]<<16 | data[pos+1]<<8 | data[pos+2]) * 0x9E3779B1 (mod 2^32),
\* then >> (32 - HASH_BITS): the product's upper half, cut to HASH_BITS bits.
Hash3(b0, b1, b2) ==
    LET xl  == b1 * 256 + b2
        low == xl * HASH_MULT_LO
        mid == (b0 * HASH_MULT_LO + ((b1 * HASH_MULT_HI) % 256) * 256
                + b2 * HASH_MULT_HI) % 65536
        hi16 == ((low \div 65536) + mid) % 65536
    IN  hi16 \div Pow2(16 - HASH_BITS)

\* A calloc'ed table read: a slot never written holds 0.
Slot(table, i) == IF i \in DOMAIN table THEN table[i] ELSE 0

\* The lanes of one vector compare that differ (the zero bits of the mask).
\* The code tests mask != (1 << SIMD_WIDTH) - 1; with 32 lanes that constant is
\* a shift by the width of int, which GCC folds to 0xFFFFFFFF (all lanes equal),
\* the value taken here.
DiffLanes(data, pos, cand, len) ==
    {j \in 0 .. SIMD_WIDTH - 1 : At(data, pos + len + j) # At(data, cand + len + j)}

LowestLane(S) == CHOOSE j \in S : \A k \in S : j <= k

\* while(len + SIMD_WIDTH <= max_len): a block with a differing lane adds the
\* index of its first differing lane (ctz of the flipped mask) and stops.
RECURSIVE VecCompare(_, _, _, _, _)
VecCompare(data, pos, cand, len, max_len) ==
    IF len + SIMD_WIDTH <= max_len
    THEN LET d == DiffLanes(data, pos, cand, len)
         IN  IF d # {} THEN len + LowestLane(d)
             ELSE VecCompare(data, pos, cand, len + SIMD_WIDTH, max_len)
    ELSE len

\* while(len < max_len && data[pos+len] == data[candidate+len]) len++
RECURSIVE ScalarTail(_, _, _, _, _)
ScalarTail(data, pos, cand, len, max_len) ==
    IF len < max_len /\ At(data, pos + len) = At(data, cand + len)
    THEN ScalarTail(data, pos, cand, len + 1, max_len)
    ELSE len

CompareLen(data, pos, cand, max_len) ==
    ScalarTail(data, pos, cand, VecCompare(data, pos, cand, 0, max_len), max_len)

\* Variant: a candidate is dropped only beyond the largest window there is.
OutsideWindow_max_window(pos, candidate, window_size) ==
    candidate > pos \/ pos - candidate > MAX_WINDOW

\* size_t dist = pos - candidate; if(dist > state->window_size) break;
\* dist is unsigned: a candidate beyond pos wraps to a distance far above any
\* window.
OutsideWindow(pos, candidate, window_size) ==
    candidate > pos \/ pos - candidate > window_size

\* The chain walk of find_match.  w carries the loop's variables: i, candidate,
\* best_len, best_match_candidate, the candidates compared so far (seen) and
\* every value the variable candidate has held (cands).
RECURSIVE Walk(_, _, _, _, _)
Walk(data, pos, end, st, w) ==
    IF ~(w.i < MATCH_SEARCH_LIMIT /\ w.candidate # 0) THEN w
    ELSE IF w.candidate = pos
    THEN LET next == Slot(st.chain, w.candidate % st.window_size)
         IN  Walk(data, pos, end, st,
                  [w EXCEPT !.i = @ + 1, !.candidate = next,
                            !.cands = Append(@, next)])
    ELSE IF OutsideWindow(pos, w.candidate, st.window_size) THEN w
    ELSE LET max_len == Min(end - pos, MAX_MATCH)
             len == CompareLen(data, pos, w.candidate, max_len)
             better == len > w.best_len /\ len >= MIN_MATCH
             w1 == [w EXCEPT !.best_len = IF better THEN len ELSE @,
                             !.best = IF better THEN w.candidate ELSE @,
                             !.seen = Append(@, w.candidate)]
             next == Slot(st.chain, w.candidate % st.window_size)
         IN  IF better /\ len >= MAX_MATCH THEN w1
             ELSE Walk(data, pos, end, st,
                       [w1 EXCEPT !.i = @ + 1, !.candidate = next,
                                  !.cands = Append(@, next)])

\* Variant: the chain slot of pos is linked before the walk reads the chain.
find_match_link_first(data, pos, end, st) ==
    IF pos + MIN_MATCH > end
    THEN [len |-> 0, match_pos |-> 0, seen |-> <<>>, cands |-> <<>>, state |-> st]
    ELSE LET hash == Hash3(At(data, pos), At(data, pos + 1), At(data, pos + 2))
             prev_head_value == Slot(st.head, hash)
             st1 == [st EXCEPT !.head = (hash :> pos) @@ @,
                               !.chain = ((pos % st.window_size) :> prev_head_value) @@ @]
             w == Walk(data, pos, end, st1,
                       [i |-> 0, candidate |-> prev_head_value,
                        best_len |-> 0, best |-> 0, seen |-> <<>>,
                        cands |-> <<prev_head_value>>])
         IN  [len |-> w.best_len, match_pos |-> w.best, seen |-> w.seen,
              cands |-> w.cands, state |-> st1]

\* find_match: the length and position of the match, the candidates compared,
\* the values candidate went through, and the state with head[hash] and
\* chain[pos % window_size] updated.
find_match(data, pos, end, st) ==
    IF pos + MIN_MATCH > end
    THEN [len |-> 0, match_pos |-> 0, seen |-> <<>>, cands |-> <<>>, state |-> st]
    ELSE LET hash == Hash3(At(data, pos), At(data, pos + 1), At(data, pos + 2))
             prev_head_value == Slot(st.head, hash)
             st1 == [st EXCEPT !.head = (hash :> pos) @@ @]
             w == Walk(data, pos, end, st1,
                       [i |-> 0, candidate |-> prev_head_value,
                        best_len |-> 0, best |-> 0, seen |-> <<>>,
                        cands |-> <<prev_head_value>>])
         IN  [len |-> w.best_len, match_pos |-> w.best, seen |-> w.seen,
              cands |-> w.cands,
              state |-> [st1 EXCEPT !.chain =
                            ((pos % st.window_size) :> prev_head_value) @@ @]]

\* nz_init: the clamped window and the two zeroed tables.
nz_init(window_size) ==
    LET w1 == IF window_size < MIN_WINDOW THEN DEFAULT_WINDOW ELSE window_size
        w2 == IF w1 > MAX_WINDOW THEN MAX_WINDOW ELSE w1
    IN  [window_size |-> w2, head |-> <<>>, chain |-> <<>>, live |-> TRUE]

\* Variant: a return that leaves the tables allocated.
nz_cleanup_leak(st) == st

\* nz_cleanup: both tables freed.
nz_cleanup(st) == [st EXCEPT !.live = FALSE]

\* ------------------------------------------------------------ encoder
VARIABLES
    pc,         \* "idle", "compress", "compressed", "decompress", "done"
    input,      \* nanozip_compress: the input bytes (in_size = Len(input))
    out_size,   \* nanozip_compress: capacity of the output buffer
    state,      \* NZ_State
    allocs,     \* head/chain table pairs allocated so far by the call
    output,     \* the bytes written to output, output[0 .. out_ptr - output)
    pos,        \* the loop's input position
    tokens,     \* the tokens emitted so far, in order
    stop,       \* 0, or the size of the token a break found no room for
    cret,       \* nanozip_compress's return value (-1 before it returns)
    fm          \* the loop's last find_match call: pos, what it returned, its walk

enc_vars == <<input, out_size, state, allocs, output, pos, tokens, stop, cret, fm>>

\* The inputs tried: every string over InBytes up to MaxLen bytes, and a few
\* long ones that take the vector compare through whole blocks.
InBytes == {65, ESCAPE_MARKER, MATCH_MARKER}

RECURSIVE Strings(_, _)
Strings(S, n) ==
    IF n = 0 THEN {<<>>}
    ELSE LET shorter == Strings(S, n - 1)
         IN  shorter \cup {Append(s, b) : s \in {t \in shorter : Len(t) = n - 1}, b \in S}

Run(b, n) == [i \in 1 .. n |-> b]

LongInputs ==
    { Run(65, 36),
      [i \in 1 .. 40 |-> IF i % 2 = 0 THEN 65 ELSE MATCH_MARKER],
      Run(65, 5) \o <<66>> \o Run(65, 34) }

Inputs == Strings(InBytes, MaxLen) \cup LongInputs

\* Byte i of the filler of an input longer than the window: a two-byte
\* counter, so that no three filler bytes occur twice.
Filler(i) == IF i % 2 = 0 THEN (i \div 2) % 150 ELSE 150 + (i \div 2) \div 150

\* An input of n bytes: filler, with the byte strings of plants (pairs of an
\* offset and a string) laid over it.
Planted(n, plants) ==
    [i \in 1 .. n |->
        LET over == {q \in plants : q[1] < i /\ i <= q[1] + Len(q[2])}
        IN  IF over = {} THEN Filler(i - 1)
            ELSE LET q == CHOOSE q \in over : TRUE IN q[2][i - q[1]]]

\* Inputs longer than the smallest window, compressed with that window, so
\* that positions share chain slots with the positions a window before them.
\* The first repeats one string at exactly the window's distance, another one
\* byte further, a third twice with the oldest occurrence out of the window,
\* and a fourth twice past the window's length, where the chain slot read for
\* the nearer occurrence was first written a window earlier.
\* The second is a period of seven bytes: every match is as long as can be.
\* The third repeats three bytes every forty: each walk goes down the chain of
\* the earlier occurrences until one is out of the window.
WindowRuns ==
    { Planted(MIN_WINDOW + LongTail,
              { <<5, <<200, 201, 202, 203>>>>,
                <<5 + MIN_WINDOW, <<200, 201, 202, 203>>>>,
                <<20, <<210, 211, 212, 213>>>>,
                <<21 + MIN_WINDOW, <<210, 211, 212, 213>>>>,
                <<40, <<220, 221, 222, 223>>>>,
                <<600, <<220, 221, 222, 223>>>>,
                <<MIN_WINDOW + 90, <<220, 221, 222, 223>>>>,
                <<51, <<240, 241, 242, 243>>>>,
                <<MIN_WINDOW + 41, <<240, 241, 242, 243>>>>,
                <<MIN_WINDOW + 77, <<240, 241, 242, 243>>>> }),
      [i \in 1 .. MIN_WINDOW + LongTail |-> 65 + (i % 7)],
      Planted(MIN_WINDOW + LongTail,
              {<<7 + 40 * k, <<230, 231, 232>>>> : k \in 0 .. (MIN_WINDOW + LongTail) \div 40 - 1}) }

\* The window_size arguments tried: default, in range, above MAX_WINDOW.
WindowArgs == {0, 1024, 70000}

\* The capacities tried for an input of n bytes: from one byte short of the
\* header check to one byte above 2n + 14.
OutSizes(n) == IF n <= MaxLen THEN (n + 13) .. (2 * n + 15)
               ELSE {n + 14, n + 18, 2 * n + 14}

\* Variant: the entry check asks for room for the header alone.
HeaderFits_header_only(in_size, cap) == ~(cap < HEADER_SIZE)

\* if(out_size < in_size + 14) return 0;
HeaderFits(in_size, cap) == ~(cap < in_size + HEADER_SIZE)

\* Variant: the match check asks for room for one byte.
MatchFits_one_byte(written, cap) == ~(written > cap - 1)

\* if(out_ptr - output > (ptrdiff_t)out_size - 4) break;
MatchFits(written, cap) == ~(written > cap - 4)

\* if (out_ptr - output >= (ptrdiff_t)out_size - 2) break;
EscapeFits(written, cap) == ~(written >= cap - 2)

\* if (out_ptr - output >= (ptrdiff_t)out_size - 1) break;
LiteralFits(written, cap) == ~(written >= cap - 1)

\* The four bytes of a match token; dist is the uint32_t pos - actual_match_pos.
MatchToken(dist, len) ==
    <<MATCH_MARKER, dist % 256, (dist \div 256) % 256, (len - MIN_MATCH) % 256>>

\* Variant: only 0xC0 and above are escaped; 0xBF goes out as it is.
LiteralToken_bf_direct(b) == IF b >= MATCH_MARKER THEN <<ESCAPE_MARKER, b>> ELSE <<b>>

\* The bytes of a literal token: escaped for 0xBF and for 0xC0 and above.
LiteralToken(b) ==
    IF b = ESCAPE_MARKER THEN <<ESCAPE_MARKER, ESCAPE_MARKER>>
    ELSE IF b >= MATCH_MARKER THEN <<ESCAPE_MARKER, b>>
    ELSE <<b>>

\* Variant: a match advances the position by one byte.
Advance_one(p, match_len) == p + 1

\* pos += match_len
Advance(p, match_len) == p + match_len

\* The 14-byte header: magic, (uint32_t)in_size, CRC32 of the input, window.
Header(data, st) ==
    NZ_MAGIC \o SizeBytes(Len(data)) \o nz_crc32(data) \o U16Bytes(st.window_size % 65536)

NoState == [window_size |-> 0, head |-> <<>>, chain |-> <<>>, live |-> FALSE]

\* fm before the loop's first find_match call.
NoMatch == [pos |-> 0, len |-> 0, match_pos |-> 0, cands |-> <<>>]

\* The loop's body once find_match has returned m: a token or a break, as the
\* changes to [state, output, pos, tokens, stop, fm] for the capacity cap.
EmitToken(data, cap, e, m) ==
    LET e1 == [e EXCEPT !.state = m.state,
                        !.fm = [pos |-> e.pos, len |-> m.len,
                                match_pos |-> m.match_pos, cands |-> m.cands]]
        written == Len(e.output)
        b == At(data, e.pos)
        lit == LiteralToken(b)
    IN  IF m.len >= MIN_MATCH
        THEN IF MatchFits(written, cap)
             THEN [e1 EXCEPT !.output = @ \o MatchToken(e.pos - m.match_pos, m.len),
                             !.tokens = Append(@, [kind |-> "match",
                                                   dist |-> e.pos - m.match_pos,
                                                   len |-> m.len]),
                             !.pos = Advance(@, m.len)]
             ELSE [e1 EXCEPT !.stop = 4]
        ELSE IF b = ESCAPE_MARKER \/ b >= MATCH_MARKER
        THEN IF EscapeFits(written, cap)
             THEN [e1 EXCEPT !.output = @ \o lit,
                             !.tokens = Append(@, [kind |-> "escape", val |-> b]),
                             !.pos = @ + 1]
             ELSE [e1 EXCEPT !.stop = 2]
        ELSE IF LiteralFits(written, cap)
             THEN [e1 EXCEPT !.output = @ \o lit,
                             !.tokens = Append(@, [kind |-> "literal", val |-> b]),
                             !.pos = @ + 1]
             ELSE [e1 EXCEPT !.stop = 1]

\* One turn of the encoder's for loop: find_match at pos, then the token.
EncodeStep(data, cap, e) ==
    EmitToken(data, cap, e, find_match(data, e.pos, Len(data), e.state))

\* ------------------------------------------------------------ decoder
VARIABLES
    dec_in,     \* nanozip_decompress: the compressed input (in_size = Len(dec_in))
    dec_cap,    \* nanozip_decompress: capacity of the output buffer (out_size)
    from_enc,   \* the decoder's input is what nanozip_compress returned
    hdr,        \* data_size, crc and window_size read from the header
    in_off,     \* in_ptr - input
    dout,       \* the bytes written to output, output[0 .. out_pos)
    copies,     \* the match tokens accepted and copied: dist, len, out_pos before
    brk,        \* "none", or why the token loop was left by a break
    dret,       \* nanozip_decompress's return value (-1 before it returns)
    in_read     \* the indices of input[] the call has read so far

dec_vars ==
    <<dec_in, dec_cap, from_enc, hdr, in_off, dout, copies, brk, dret, in_read>>

vars == <<pc, enc_vars, dec_vars>>

U16Val(bytes, i) == At(bytes, i) + 256 * At(bytes, i + 1)
U32Val(bytes, i) == U16Val(bytes, i) + 65536 * U16Val(bytes, i + 2)

NoHeader == [data_size |-> 0, crc |-> <<0, 0, 0, 0>>, window_size |-> 0]

\* The header checks of nanozip_decompress, in the code's order.
HeaderError(bytes, cap) ==
    IF Len(bytes) < HEADER_SIZE THEN "short"
    ELSE IF SubSeq(bytes, 1, 4) # NZ_MAGIC THEN "magic"
    ELSE IF U16Val(bytes, 12) = 0 \/ U16Val(bytes, 12) > MAX_WINDOW THEN "window"
    ELSE IF U32Val(bytes, 4) > cap THEN "capacity"
    ELSE "none"

\* The indices of input[] the header code reads: nothing of a short input,
\* the magic alone when it is wrong, otherwise all fourteen bytes.
HeaderReads(bytes) ==
    IF Len(bytes) < HEADER_SIZE THEN {}
    ELSE IF SubSeq(bytes, 1, 4) # NZ_MAGIC THEN 0 .. 3
    ELSE 0 .. (HEADER_SIZE - 1)

ReadHeader(bytes) ==
    [data_size |-> U32Val(bytes, 4), crc |-> SubSeq(bytes, 9, 12),
     window_size |-> U16Val(bytes, 12)]

\* Variant: a bulk copy of the len bytes at out_pos - dist as they are before
\* the copy; the bytes at and after out_pos are not written yet (read as 0).
CopyMatch_bulk(out, dist, len) ==
    out \o [i \in 1 .. len |->
               IF Len(out) - dist + i <= Len(out) THEN out[Len(out) - dist + i] ELSE 0]

\* for(i = 0; i < len; i++) { output[out_pos] = output[out_pos - dist]; out_pos++; }
RECURSIVE CopyMatch(_, _, _)
CopyMatch(out, dist, len) ==
    IF len = 0 THEN out
    ELSE CopyMatch(Append(out, At(out, Len(out) - dist)), dist, len - 1)

\* Variant: a copy is not held back by the declared size.
MatchError_no_overrun(len, dist, out_pos, data_size) ==
    IF len > MAX_MATCH THEN "bad_len"
    ELSE IF dist = 0 THEN "dist_zero"
    ELSE IF dist > out_pos THEN "dist_far"
    ELSE "none"

\* Why a match token is refused ("none": it is copied).
MatchError(len, dist, out_pos, data_size) ==
    IF len > MAX_MATCH THEN "bad_len"
    ELSE IF dist = 0 THEN "dist_zero"
    ELSE IF dist > out_pos THEN "dist_far"
    ELSE IF out_pos + len > data_size THEN "overrun"
    ELSE "none"

\* One turn of the decoder's while loop, as the changes to
\* [in_off, dout, copies, brk, in_read].
DecodeStep(bytes, h, d) ==
    LET in_remain == Len(bytes) - d.in_off
        first == At(bytes, d.in_off)
        out_pos == Len(d.dout)
        d1 == [d EXCEPT !.in_read = @ \cup {d.in_off}]
    IN  IF first = ESCAPE_MARKER
        THEN IF in_remain - 1 = 0
             THEN [d1 EXCEPT !.in_off = @ + 1, !.brk = "trunc_escape"]
             ELSE [d1 EXCEPT !.in_off = @ + 2,
                             !.dout = Append(@, At(bytes, d.in_off + 1)),
                             !.in_read = @ \cup {d.in_off + 1}]
        ELSE IF first = MATCH_MARKER
        THEN IF in_remain < 4 THEN [d1 EXCEPT !.brk = "trunc_match"]
             ELSE LET len == At(bytes, d.in_off + 3) + MIN_MATCH
                      dist == U16Val(bytes, d.in_off + 1)
                      err == MatchError(len, dist, out_pos, h.data_size)
                      d2 == [d1 EXCEPT !.in_read = @ \cup (d.in_off + 1) .. (d.in_off + 3)]
                  IN  IF err # "none" THEN [d2 EXCEPT !.brk = err]
                      ELSE [d2 EXCEPT !.in_off = @ + 4,
                                      !.dout = CopyMatch(@, dist, len),
                                      !.copies = Append(@, [dist |-> dist, len |-> len,
                                                            out_pos |-> out_pos])]
        ELSE [d1 EXCEPT !.in_off = @ + 1, !.dout = Append(@, first)]

\* Variant: the final check compares the size and not the CRC.
FinalCheck_size_only(out, h) == IF Len(out) # h.data_size THEN 0 ELSE h.data_size

\* if(out_pos != data_size || nz_crc32(output, data_size) != crc) return 0;
\* return data_size;
FinalCheck(out, h) ==
    IF Len(out) # h.data_size \/ nz_crc32(out) # h.crc THEN 0 ELSE h.data_size

\* ------------------------------------------- hand-built decoder inputs
\* Tokens a payload is built from: a direct literal, an escaped literal, and
\* match tokens of distance 0, 1 and 2.
TokMenu ==
    { <<65>>, <<ESCAPE_MARKER, ESCAPE_MARKER>>,
      <<MATCH_MARKER, 0, 0, 0>>, <<MATCH_MARKER, 1, 0, 0>>,
      <<MATCH_MARKER, 2, 0, 0>>, <<MATCH_MARKER, 1, 0, 1>> }

RECURSIVE TokStreams(_)
TokStreams(n) ==
    IF n = 0 THEN {<<>>}
    ELSE LET shorter == TokStreams(n - 1)
         IN  shorter \cup {s \o t : s \in shorter, t \in TokMenu}

\* A stream of whole tokens, or one cut up to three bytes short.
Payloads ==
    {SubSeq(s, 1, Len(s) - k) : s \in TokStreams(MaxTok), k \in 0 .. 3}

MakeHeader(magic, size, crc, window) ==
    magic \o SizeBytes(size) \o crc \o U16Bytes(window)

\* The originals whose size and CRC32 the hand-built headers declare.
Origs == {<<65>>, <<65, 65, 65, 65>>, <<65, ESCAPE_MARKER, 65, ESCAPE_MARKER, 65>>}

GoodHeaders ==
    {MakeHeader(NZ_MAGIC, Len(o), nz_crc32(o), w) : o \in Origs, w \in {1, MIN_WINDOW}}

BadHeaders ==
    LET o == <<65, 65, 65, 65>>
        p == <<65, ESCAPE_MARKER, 65, ESCAPE_MARKER, 65>>
    IN  { MakeHeader(<<80, 90, 78, 91>>, Len(o), nz_crc32(o), 1),
          MakeHeader(NZ_MAGIC, Len(o), nz_crc32(o), 0),
          MakeHeader(NZ_MAGIC, Len(o), nz_crc32(p), 1),
          MakeHeader(NZ_MAGIC, Len(o) + 1, nz_crc32(o), 1),
          MakeHeader(NZ_MAGIC, Len(o) - 1, nz_crc32(o), 1),
          MakeHeader(NZ_MAGIC, Len(p) + 1, nz_crc32(p), 1),
          MakeHeader(NZ_MAGIC, 0, nz_crc32(<<>>), 1),
          MakeHeader(NZ_MAGIC, 0, nz_crc32(o), 1) }

Crafted ==
    {h \o p : h \in GoodHeaders \cup BadHeaders, p \in Payloads}
    \cup {SubSeq(h, 1, k) : h \in GoodHeaders, k \in {0, 13}}

\* The output capacity given with a hand-built input.
CraftedCaps == {5}

\* ------------------------------------------------------------ actions
Init ==
    /\ pc = "idle"
    /\ input = <<>> /\ out_size = 0 /\ state = NoState /\ allocs = 0
    /\ output = <<>> /\ pos = 0 /\ tokens = <<>> /\ stop = 0 /\ cret = -1
    /\ fm = NoMatch
    /\ dec_in = <<>> /\ dec_cap = 0 /\ from_enc = FALSE /\ hdr = NoHeader
    /\ in_off = 0 /\ dout = <<>> /\ copies = <<>> /\ brk = "none" /\ dret = -1
    /\ in_read = {}

\* nanozip_compress up to its loop, on the given input, window argument and
\* capacity: the capacity check, nz_init, the header.
CompressEnter(data, w, cap) ==
    /\ input' = data
    /\ out_size' = cap
    /\ IF HeaderFits(Len(data), cap)
       THEN LET st == nz_init(w)
            IN  /\ state' = st
                /\ allocs' = allocs + 1
                /\ output' = Header(data, st)
                /\ cret' = cret
                /\ pc' = "compress"
       ELSE /\ cret' = 0
            /\ pc' = "compressed"
            /\ UNCHANGED <<state, allocs, output>>
    /\ UNCHANGED <<pos, tokens, stop, fm, dec_vars>>

\* A call on one of the short inputs, with any window argument and capacity.
CompressCall ==
    /\ pc = "idle"
    /\ \E data \in Inputs, w \in WindowArgs :
         \E cap \in OutSizes(Len(data)) : CompressEnter(data, w, cap)

\* A call on an input longer than the window it asks for.
CompressLong ==
    /\ pc = "idle"
    /\ \E data \in WindowRuns :
         CompressEnter(data, MIN_WINDOW, 2 * Len(data) + HEADER_SIZE)

\* One turn of the encoder's loop: find_match, then a token or a break.
CompressStep ==
    /\ pc = "compress" /\ stop = 0 /\ pos < Len(input)
    /\ LET e == EncodeStep(input, out_size,
                           [state |-> state, output |-> output, pos |-> pos,
                            tokens |-> tokens, stop |-> stop, fm |-> fm])
       IN  /\ state' = e.state /\ output' = e.output /\ pos' = e.pos
           /\ tokens' = e.tokens /\ stop' = e.stop /\ fm' = e.fm
    /\ UNCHANGED <<pc, input, out_size, allocs, cret, dec_vars>>

\* After the loop (run out or left by a break): nz_cleanup and the return.
CompressReturn ==
    /\ pc = "compress" /\ (stop # 0 \/ pos >= Len(input))
    /\ state' = nz_cleanup(state)
    /\ cret' = Len(output)
    /\ pc' = "compressed"
    /\ UNCHANGED <<input, out_size, allocs, output, pos, tokens, stop, fm, dec_vars>>

\* nanozip_decompress up to its loop, on the given input and capacity.
DecompressEnter(bytes, cap, enc) ==
    /\ dec_in' = bytes /\ dec_cap' = cap /\ from_enc' = enc
    /\ in_read' = HeaderReads(bytes)
    /\ IF HeaderError(bytes, cap) = "none"
       THEN /\ hdr' = ReadHeader(bytes)
            /\ in_off' = HEADER_SIZE
            /\ dret' = dret
            /\ pc' = "decompress"
       ELSE /\ dret' = 0
            /\ pc' = "done"
            /\ UNCHANGED <<hdr, in_off>>
    /\ UNCHANGED <<dout, copies, brk, enc_vars>>

\* The caller hands what nanozip_compress returned to nanozip_decompress.
DecompressEncoded ==
    /\ pc = "compressed" /\ cret > 0
    /\ \E cap \in {Len(input), Len(input) + 1} :
         DecompressEnter(SubSeq(output, 1, cret), cap, TRUE)

\* nanozip_decompress on a hand-built (possibly corrupt) input.
DecompressCrafted ==
    /\ pc = "idle"
    /\ \E bytes \in Crafted, cap \in CraftedCaps : DecompressEnter(bytes, cap, FALSE)

\* One turn of the decoder's loop: one token or a break.
DecompressStep ==
    /\ pc = "decompress" /\ brk = "none"
    /\ Len(dec_in) - in_off > 0 /\ Len(dout) < hdr.data_size
    /\ LET d == DecodeStep(dec_in, hdr,
                           [in_off |-> in_off, dout |-> dout, copies |-> copies,
                            brk |-> brk, in_read |-> in_read])
       IN  /\ in_off' = d.in_off /\ dout' = d.dout
           /\ copies' = d.copies /\ brk' = d.brk /\ in_read' = d.in_read
    /\ UNCHANGED <<pc, dec_in, dec_cap, from_enc, hdr, dret, enc_vars>>

\* After the loop: the size and CRC check and the return.
DecompressReturn ==
    /\ pc = "decompress"
    /\ (brk # "none" \/ ~(Len(dec_in) - in_off > 0 /\ Len(dout) < hdr.data_size))
    /\ dret' = FinalCheck(dout, hdr)
    /\ pc' = "done"
    /\ UNCHANGED <<dec_in, dec_cap, from_enc, hdr, in_off, dout, copies, brk, in_read,
                   enc_vars>>

Next ==
    \/ CompressCall
    \/ CompressStep
    \/ CompressReturn
    \/ DecompressEncoded
    \/ DecompressCrafted
    \/ DecompressStep
    \/ DecompressReturn

Spec == Init /\ [][Next]_vars

\* The encoder alone, on the short inputs and on those longer than the window.
EncNext ==
    \/ CompressCall
    \/ CompressLong
    \/ CompressStep
    \/ CompressReturn

EncSpec == Init /\ [][EncNext]_vars

\* ------------------------------------------- whole runs, for reference
\* The encoder's loop run to its end from the record e.
RECURSIVE EncodeLoop(_, _, _)
EncodeLoop(data, cap, e) ==
    IF e.stop # 0 \/ e.pos >= Len(data) THEN e
    ELSE LET e1 == EncodeStep(data, cap, e) IN Strict(e1.pos, EncodeLoop(data, cap, e1))

\* A capacity no token of the stream for data can come near.
Roomy(data) == HEADER_SIZE + 4 * Len(data) + 4

\* What nanozip_compress writes for data with window w when capacity never
\* runs out.
FullStream(data, w) ==
    LET st == [window_size |-> w, head |-> <<>>, chain |-> <<>>, live |-> TRUE]
    IN  EncodeLoop(data, Roomy(data),
                   [state |-> st, output |-> Header(data, st), pos |-> 0,
                    tokens |-> <<>>, stop |-> 0, fm |-> NoMatch]).output

\* The token rule read left to right over a payload from offset i: 0xC0 starts
\* four bytes, 0xBF two, any other byte is one.  ok is FALSE when the last
\* token is cut short.
RECURSIVE ParseTokens(_, _, _)
ParseTokens(bytes, i, acc) ==
    IF i >= Len(bytes) THEN [ok |-> TRUE, tokens |-> acc]
    ELSE IF At(bytes, i) = MATCH_MARKER
    THEN IF i + 4 > Len(bytes) THEN [ok |-> FALSE, tokens |-> acc]
         ELSE ParseTokens(bytes, i + 4,
                          Append(acc, [kind |-> "match", dist |-> U16Val(bytes, i + 1),
                                       len |-> At(bytes, i + 3) + MIN_MATCH]))
    ELSE IF At(bytes, i) = ESCAPE_MARKER
    THEN IF i + 2 > Len(bytes) THEN [ok |-> FALSE, tokens |-> acc]
         ELSE ParseTokens(bytes, i + 2,
                          Append(acc, [kind |-> "escape", val |-> At(bytes, i + 1)]))
    ELSE ParseTokens(bytes, i + 1, Append(acc, [kind |-> "literal", val |-> At(bytes, i)]))

IsPrefix(s, t) == Len(s) <= Len(t) /\ SubSeq(t, 1, Len(s)) = s

\* ------------------------------------------------------------- claims
EncReturned == cret # -1

\* The state nanozip_compress returns in.
AtReturn == pc = "compressed"

\* The encoder's loop ran out of input: no break for lack of capacity.
ConsumedAll == EncReturned /\ stop = 0 /\ pos = Len(input)

RoundTripDone == pc = "done" /\ from_enc

Payload == SubSeq(output, HEADER_SIZE + 1, Len(output))

HasKind(k) == \E i \in DOMAIN tokens : tokens[i].kind = k

\* C1: round trip.  When nanozip_compress returned n > 0 having consumed the
\* whole input, nanozip_decompress of the first n output bytes, with a capacity
\* of at least in_size, returns in_size and leaves the original bytes.
C1_RoundTrip ==
    (RoundTripDone /\ cret > 0 /\ ConsumedAll /\ dec_cap >= Len(input))
        => (dret = Len(input) /\ dout = input)

\* A round trip through escaped literals and an overlapping match (distance
\* below length).
C1_Witness ==
    /\ RoundTripDone /\ cret > 0 /\ ConsumedAll /\ dret = Len(input)
    /\ HasKind("escape")
    /\ \E i \in DOMAIN copies : copies[i].dist < copies[i].len

\* The header is valid in the claim's words: in_size >= 14, the magic matches,
\* the window is at least 1 and the declared size fits the capacity.
ValidHeader ==
    /\ Len(dec_in) >= 14
    /\ SubSeq(dec_in, 1, 4) = NZ_MAGIC
    /\ U16Val(dec_in, 12) >= 1
    /\ U32Val(dec_in, 4) <= dec_cap

DecodeSucceeds ==
    /\ ValidHeader
    /\ Len(dout) = U32Val(dec_in, 4)
    /\ nz_crc32(dout) = SubSeq(dec_in, 9, 12)

\* C2: nanozip_decompress returns the declared size when the header is valid,
\* the loop produced exactly the declared number of bytes and their CRC32 is
\* the header's; in every other case, and after every break, it returns 0.
C2_DecodeResult ==
    pc = "done" =>
        /\ DecodeSucceeds => dret = U32Val(dec_in, 4)
        /\ ~DecodeSucceeds => dret = 0
        /\ brk # "none" => dret = 0

\* A hand-built stream accepted with a copied match, next to which the same
\* run of the checker reaches the refused ones.
C2_Witness ==
    pc = "done" /\ ~from_enc /\ dret > 0 /\ dret = hdr.data_size /\ copies # <<>>

\* C3: every match token the decoder copies has a length in [3, 258] and a
\* distance in [1, min(output position, header window size)]: a token outside
\* these bounds is refused, and the decoder then returns 0.
C3_MatchBounds ==
    /\ \A i \in DOMAIN copies :
         /\ copies[i].len >= MIN_MATCH /\ copies[i].len <= MAX_MATCH
         /\ copies[i].dist >= 1 /\ copies[i].dist <= copies[i].out_pos
    /\ pc = "done" =>
         /\ brk \in {"bad_len", "dist_zero", "dist_far"} => dret = 0
         /\ (\E i \in DOMAIN copies : copies[i].dist > hdr.window_size) => dret = 0

\* C4: with out_size = 2 * size + 14 the encoder never stops for lack of
\* capacity, and decoding its result returns size with the input's bytes.
C4_DoubleSizeEnough ==
    (EncReturned /\ out_size = 2 * Len(input) + HEADER_SIZE) =>
        /\ ConsumedAll
        /\ (RoundTripDone /\ dec_cap = Len(input)) => (dret = Len(input) /\ dout = input)

\* C5: the encoder stops early only when the remaining capacity is strictly
\* smaller than the next token's size (4, 2 or 1 bytes), and every token it
\* emits fits.
C5_ExactCapacity ==
    /\ stop # 0 => out_size - Len(output) < stop
    /\ Len(output) <= out_size

\* C6 as stated: nanozip_compress returns 0 only when the capacity cannot hold
\* the 14-byte header; whenever it can, the header is written and at least 14
\* is returned.
C6_ZeroOnlyWithoutHeaderRoom ==
    AtReturn =>
        /\ cret = 0 => out_size < HEADER_SIZE
        /\ out_size >= HEADER_SIZE => (cret >= HEADER_SIZE /\ Len(output) >= HEADER_SIZE)

\* C6 as amended: nanozip_compress returns 0 exactly when out_size is below
\* in_size + 14; otherwise it writes the header and returns the number of bytes
\* written, at least 14.
C6_ZeroBelowInputPlusHeader ==
    AtReturn =>
        /\ cret = 0 <=> out_size < Len(input) + HEADER_SIZE
        /\ cret # 0 =>
             /\ cret >= HEADER_SIZE /\ cret = Len(output)
             /\ SubSeq(output, 1, 4) = NZ_MAGIC
             /\ U32Val(output, 4) = Len(input)
             /\ SubSeq(output, 9, 12) = nz_crc32(input)
             /\ U16Val(output, 12) = state.window_size

\* The header would fit, the input would not, and 0 is returned.
C6_Witness ==
    pc = "compressed" /\ cret = 0 /\ out_size >= HEADER_SIZE /\ output = <<>>

\* C7: the bytes after the header, read left to right by the token rule, give
\* back the tokens the encoder emitted and end at the last byte written; a
\* literal of value 0xBF or >= 0xC0 is always the two-byte escape.
C7_SelfDelimiting ==
    Len(output) >= HEADER_SIZE =>
        /\ LET p == ParseTokens(Payload, 0, <<>>)
           IN  p.ok /\ p.tokens = tokens
        /\ \A i \in DOMAIN tokens :
             /\ tokens[i].kind = "literal" => tokens[i].val < ESCAPE_MARKER
             /\ tokens[i].kind = "escape" => tokens[i].val >= ESCAPE_MARKER

\* A returned stream holding all three kinds of token, an escaped 0xBF among them.
C7_Witness ==
    /\ pc = "compressed" /\ cret > HEADER_SIZE
    /\ HasKind("match") /\ HasKind("literal")
    /\ \E i \in DOMAIN tokens : tokens[i].kind = "escape" /\ tokens[i].val = ESCAPE_MARKER

\* C8: the encoder never writes at or beyond out_size and returns at most
\* out_size; when it stops for lack of capacity, what it wrote is the header
\* and whole tokens, a prefix of the stream it writes with capacity to spare.
C8_CapacitySafe ==
    /\ Len(output) <= out_size
    /\ EncReturned => cret <= out_size
    /\ (AtReturn /\ stop # 0) =>
         /\ IsPrefix(output, FullStream(input, state.window_size))
         /\ Len(output) < Len(FullStream(input, state.window_size))
         /\ ParseTokens(Payload, 0, <<>>).ok

\* A stop at a match token, after at least two tokens were written.
C8_Witness ==
    pc = "compressed" /\ stop = 4 /\ Len(tokens) >= 2 /\ cret = Len(output)

\* C9: the encoder returns at most 2 * n + 14, and after every step the token
\* bytes written are at most twice the input bytes consumed.
C9_SizeBound ==
    /\ Len(output) >= HEADER_SIZE => Len(output) - HEADER_SIZE <= 2 * pos
    /\ EncReturned => cret <= 2 * Len(input) + HEADER_SIZE

\* The bound is met: a non-empty input, every byte of it escaped.
C9_Witness ==
    pc = "compressed" /\ Len(input) > 1 /\ cret = 2 * Len(input) + HEADER_SIZE

\* C10: a call allocates at most one head/chain table pair, and none is live
\* once the call has returned, on any of its exit paths.
C10_StateLifecycle ==
    /\ allocs <= 1
    /\ state.live => (allocs = 1 /\ pc = "compress")
    /\ EncReturned => ~state.live

\* A return after a break for lack of capacity: one pair allocated, none live.
C10_Witness ==
    pc = "compressed" /\ stop # 0 /\ allocs = 1 /\ ~state.live

\* C11: on every input, corrupt ones included, nanozip_decompress reads no
\* input index at or past in_size, writes no output index at or past the
\* declared size (itself at most the capacity), and every byte a match copy
\* reads lies below the output position of that moment, so that an
\* overlapping copy (distance < length) repeats bytes it has just written.
C11_DecoderMemorySafe ==
    /\ \A i \in in_read : i >= 0 /\ i < Len(dec_in)
    /\ Len(dout) <= hdr.data_size /\ hdr.data_size <= dec_cap
    /\ \A k \in DOMAIN copies :
         \A i \in 0 .. (copies[k].len - 1) :
           LET at == copies[k].out_pos + i
               src == at - copies[k].dist
           IN  /\ src >= 0 /\ src < at
               /\ at < Len(dout) /\ At(dout, at) = At(dout, src)

\* A hand-built stream with an overlapping copy that ends in a lone escape
\* marker: the last input byte is read and nothing after it.
C11_Witness ==
    /\ pc = "done" /\ ~from_enc /\ brk = "trunc_escape"
    /\ (Len(dec_in) - 1) \in in_read
    /\ \E k \in DOMAIN copies : copies[k].dist < copies[k].len

\* The last find_match call found a match and the loop wrote its token.
TokenWritten == fm.len >= MIN_MATCH /\ stop = 0 /\ pos = fm.pos + fm.len

\* C12: whenever find_match returns a length of at least 3 with match position
\* m for position pos, then 1 <= pos - m <= window_size <= 65535, the length
\* is at most min(end - pos, 258), and the len bytes at m equal the len bytes
\* at pos; the token then written holds that distance in its two bytes and
\* len - 3 in its last byte, neither cut.  Inputs longer than the window,
\* where positions a window apart share a chain slot, are included.
C12_MatchSound ==
    fm.len >= MIN_MATCH =>
        LET dist == fm.pos - fm.match_pos
            n == Len(output)
        IN  /\ 1 <= dist /\ dist <= state.window_size
            /\ state.window_size <= MAX_WINDOW
            /\ fm.len <= Min(Len(input) - fm.pos, MAX_MATCH)
            /\ \A i \in 0 .. (fm.len - 1) :
                 At(input, fm.match_pos + i) = At(input, fm.pos + i)
            /\ TokenWritten =>
                 /\ At(output, n - 4) = MATCH_MARKER
                 /\ U16Val(output, n - 3) = dist
                 /\ At(output, n - 1) + MIN_MATCH = fm.len

\* A match at exactly the window's distance, found past the window's length:
\* the position shares its chain slot with the position it matches.
C12_Witness ==
    /\ TokenWritten
    /\ fm.pos - fm.match_pos = state.window_size
    /\ fm.pos % state.window_size = fm.match_pos % state.window_size

\* C13: in every chain walk of find_match the first candidate is below pos and
\* every candidate read from chain[candidate % window_size] is below the one
\* it was read for (0 ends the walk), so no candidate equals pos, none comes
\* twice, and a walk reads at most MATCH_SEARCH_LIMIT links.
C13_ChainOlder ==
    LET cs == fm.cands
    IN  /\ \A k \in DOMAIN cs :
             /\ (k = 1 /\ cs[k] # 0) => cs[k] < fm.pos
             /\ k > 1 => cs[k] < cs[k - 1]
             /\ cs[k] # 0 => cs[k] # fm.pos
        /\ Len(cs) <= MATCH_SEARCH_LIMIT + 1

\* A walk past the window's length whose first candidate is itself past it, so
\* that the link read for it sits in the slot of the position a window
\* earlier; the link leads to a candidate out of the window, where the walk ends.
C13_Witness ==
    LET cs == fm.cands
    IN  /\ pc = "compress" /\ Len(cs) = 2
        /\ cs[1] >= state.window_size /\ cs[2] # 0
        /\ fm.pos - cs[2] > state.window_size

====
